---- MODULE Spec2Model ----
(***************************************************************************)
(* Conversation state machine of twilly: the SmsCookie transition          *)
(* functions (src/src/SmsCookie/index.ts), the FlowController              *)
(* (src/src/Flows/Controller.ts) and the webhook processing pass           *)
(* (src/src/index.ts, handleIncomingSmsWebhook).                           *)
(*                                                                         *)
(* JavaScript objects are modelled as records.  An operator that models a  *)
(* function able to throw or to write into its argument returns an         *)
(* "effect" record [threw, error, ret, arg]: ret is the returned value     *)
(* (a sequence of length 0 or 1), arg the argument object as it is after   *)
(* the call.                                                               *)
(***************************************************************************)
EXTENDS Integers, Sequences, FiniteSets, TLC

VARIABLES
  schema,     \* FlowController.schema: TRUE when a FlowSchema was given
  state,      \* the SmsCookie object the caller of the controller holds
  last,       \* record of the last controller call and of what it did
  cookie,     \* the SmsCookie persisted on the client: <<>> or <<state>>
  pass,       \* locals of the running handleIncomingSmsWebhook call
  pass2,      \* locals of a second call of the handler, suspended at an await
  ctor        \* a call of the FlowController constructor: arguments, outcome

vars == <<schema, state, last, cookie, pass, pass2, ctor>>

Null == "null"              \* JavaScript null / undefined

(***************************************************************************)
(* Bounds of the model.                                                    *)
(***************************************************************************)
MaxHist == 2                \* calls are issued while the history is shorter
MaxAttempts == 2            \* ... and while question.attempts is shorter
MaxPasses == 2              \* inbound messages handled in one behaviour
MaxPassHist == 3            \* a pass calls nextState while the history is shorter
MaxSteps == 2               \* steps of the root Flow handed to the constructor

(***************************************************************************)
(* Flows.  A Flow is a name and an ordered list of action names (its       *)
(* resolvers are the environment).  The root has two steps, the schema     *)
(* declares one more flow with one step.                                   *)
(***************************************************************************)
RootFlow == [name |-> "root", actions |-> <<"r1", "r2">>]

SubFlow == [name |-> "sub", actions |-> <<"s1">>]

\* the FlowSchema given to the controller: a schema holds flows and nested
\* schemas; here the one declared flow sits inside a nested FlowSchema
DeclaredSchema ==
  [flows |-> {}, nested |-> {[flows |-> {SubFlow}, nested |-> {}]}]

\* the flows a depth-first traversal of a schema collects
RECURSIVE SchemaFlows(_)
SchemaFlows(sch) == sch.flows \cup UNION {SchemaFlows(n) : n \in sch.nested}

\* evaluateSchema(root, schema): the flat map name -> Flow, root included
evaluateSchema(root, sch) ==
  LET fs == {root} \cup SchemaFlows(sch)
  IN  [n \in {f.name : f \in fs} |-> CHOOSE f \in fs : f.name = n]

EvaluatedSchema == evaluateSchema(RootFlow, DeclaredSchema)

FlowNames == {"root", "sub", "ghost"}      \* "ghost" is declared nowhere

ActionNames == {"r1", "r2", "s1"}

\* flow.length
FlowLength(flow) == Len(flow.actions)

\* flow[FlowActionNames]: the set of names declared on the flow
FlowActionNames(flow) == {flow.actions[i] : i \in DOMAIN flow.actions}

\* flow[FlowSelectActionName](key): the declared name of step key, if any
FlowSelectActionName(flow, key) ==
  IF key + 1 \in DOMAIN flow.actions THEN flow.actions[key + 1] ELSE Null

(***************************************************************************)
(* Actions.  kind "NotAction" stands for null and for any value that is    *)
(* not an instance of Action.                                              *)
(***************************************************************************)
Bodies == {"yes", "Exit now"}

Sids == {<<>>, <<"SM1">>}

MkAction(kind, name, flowName, isAnswered, isFailed, cof, sid) ==
  [kind |-> kind, name |-> name, flowName |-> flowName,
   isAnswered |-> isAnswered, isFailed |-> isFailed,
   continueOnFail |-> cof, sid |-> sid]

NotAction == MkAction("NotAction", Null, Null, FALSE, FALSE, FALSE, <<>>)

\* new Exit(body): built by the controller, never named by a flow
NewExit(body) == MkAction("Exit", Null, Null, FALSE, FALSE, FALSE, <<>>)

NewReply == MkAction("Reply", Null, Null, FALSE, FALSE, FALSE, <<>>)

NewMessage == MkAction("Message", Null, Null, FALSE, FALSE, FALSE, <<>>)

NewTrigger(flowName) == MkAction("Trigger", Null, flowName, FALSE, FALSE, FALSE, <<>>)

\* a Question as it is after QuestionEvaluate and delivery: at most one of
\* isAnswered / isFailed is set
NewQuestion(verdict, cof, sid) ==
  MkAction("Question", Null, Null, verdict = "answered", verdict = "failed", cof, sid)

Verdicts == {"pending", "answered", "failed"}

\* what a step resolver can return
ResolverResults ==
  {NotAction, NewReply, NewMessage}
  \cup {NewTrigger(f) : f \in FlowNames}
  \cup {NewQuestion(v, c, s) : v \in Verdicts, c \in BOOLEAN, s \in Sids}

\* action[ActionSetName](name)
ActionSetName(action, name) == [action EXCEPT !.name = name]

\* what a caller can hand to resolveNextStateFromAction
AnyAction ==
  {NotAction}
  \cup {NewExit(b) : b \in Bodies}
  \cup {ActionSetName(a, n) : a \in ResolverResults \ {NotAction},
                              n \in ActionNames \cup {Null}}

\* action instanceof Action
IsAction(action) == action.kind # "NotAction"

\* question.isComplete
QuestionIsComplete(action) == action.isAnswered \/ action.isFailed

\* action[ActionGetContext](): the context snapshot of the action.  A
\* Trigger's context holds its target as flowName.
ActionGetContext(action) ==
  [type |-> action.kind,
   flowName |-> IF action.kind = "Trigger" THEN action.flowName ELSE Null,
   messageSid |-> <<>>]

(***************************************************************************)
(* SmsCookie (src/src/SmsCookie/index.ts).  createdAt, from, interactionId *)
(* and interactionComplete are set at creation and only ever copied.       *)
(***************************************************************************)
NoContext == [type |-> Null, flowName |-> Null, messageSid |-> <<>>]

createSmsCookie ==
  [flow |-> Null,
   flowContext |-> [n \in ActionNames |-> NoContext],
   flowKey |-> 0,
   interactionContext |-> <<>>,
   isComplete |-> FALSE,
   question |-> [attempts |-> <<>>, isAnswering |-> FALSE]]

\* mutant: the attempt is not kept
addQuestionAttempt_drops(s, attempt) == s

addQuestionAttempt(s, attempt) ==
  [s EXCEPT !.question.attempts = Append(s.question.attempts, attempt)]

completeInteraction(s) == [s EXCEPT !.isComplete = TRUE]

\* mutant: the flow switch starts the history afresh
handleTrigger_resetsHistory(s, trigger) ==
  [s EXCEPT !.flow = trigger.flowName,
            !.flowKey = 0,
            !.flowContext = [n \in ActionNames |-> NoContext],
            !.interactionContext = <<>>]

\* mutant: the flow switch carries the flow context over
handleTrigger_keepsContext(s, trigger) ==
  [s EXCEPT !.flow = trigger.flowName,
            !.flowKey = 0]

\* mutant: the flow switch reopens the interaction
handleTrigger_reopens(s, trigger) ==
  [s EXCEPT !.flow = trigger.flowName,
            !.flowKey = 0,
            !.flowContext = [n \in ActionNames |-> NoContext],
            !.isComplete = FALSE]

handleTrigger(s, trigger) ==
  [s EXCEPT !.flow = trigger.flowName,
            !.flowKey = 0,
            !.flowContext = [n \in ActionNames |-> NoContext]]

\* mutant: completing at the last step also moves the key to flow.length
incrementFlowAction_pastEnd(s, flow) ==
  LET newState == [s EXCEPT !.flowKey = s.flowKey + 1]
  IN  IF newState.flowKey = FlowLength(flow)
      THEN completeInteraction(newState)
      ELSE newState

\* mutant: the end of the flow is tested on the key before the increment
incrementFlowAction_offByOne(s, flow) ==
  LET newState == [s EXCEPT !.flowKey = s.flowKey + 1]
  IN  IF s.flowKey = FlowLength(flow)
      THEN completeInteraction(s)
      ELSE newState

incrementFlowAction(s, flow) ==
  LET newState == [s EXCEPT !.flowKey = s.flowKey + 1]
  IN  IF newState.flowKey = FlowLength(flow)
      THEN completeInteraction(s)
      ELSE newState

\* mutant: the attempts are cleared but the state is not marked answering
startQuestion_notAnswering(s) ==
  [s EXCEPT !.question = [attempts |-> <<>>, isAnswering |-> FALSE]]

startQuestion(s) ==
  [s EXCEPT !.question = [attempts |-> <<>>, isAnswering |-> TRUE]]

\* mutant: the snapshot holds the receipts of this delivery only
recordQuestionMessageSid_overwrites(s, question) == question.sid

recordQuestionMessageSid(s, question) ==
  LET prevSids == IF question.name \in ActionNames
                  THEN s.flowContext[question.name].messageSid
                  ELSE <<>>
  IN  prevSids \o question.sid

getActionContext(s, flow, action) ==
  IF action.kind = "Question"
  THEN [ActionGetContext(action) EXCEPT !.messageSid = recordQuestionMessageSid(s, action)]
  ELSE ActionGetContext(action)

\* effect records
Returned(ret, arg) == [threw |-> FALSE, error |-> Null, ret |-> <<ret>>, arg |-> arg]

Thrown(error, arg) == [threw |-> TRUE, error |-> error, ret |-> <<>>, arg |-> arg]

\* mutant: the write of flow.name comes before the name check
updateContext_writesFirst(s, flow, action) ==
  LET s1 == IF s.flow = Null THEN [s EXCEPT !.flow = flow.name] ELSE s
      ctx == getActionContext(s1, flow, action)
  IN  IF action.name \notin FlowActionNames(flow)
      THEN Thrown("ActionNotInFlow", s1)
      ELSE Returned(
             [s1 EXCEPT
                !.flowContext = [s1.flowContext EXCEPT ![action.name] = ctx],
                !.interactionContext =
                   Append(s1.interactionContext, [ctx EXCEPT !.flowName = flow.name])],
             s1)

\* updateContext writes flow.name into its argument when the argument has no
\* flow yet (line 135), after the name check, and returns a new object.
updateContext(s, flow, action) ==
  IF action.name \notin FlowActionNames(flow)
  THEN Thrown("ActionNotInFlow", s)
  ELSE LET s1 == IF s.flow = Null THEN [s EXCEPT !.flow = flow.name] ELSE s
           ctx == getActionContext(s1, flow, action)
       IN  Returned(
             [s1 EXCEPT
                !.flowContext = [s1.flowContext EXCEPT ![action.name] = ctx],
                !.interactionContext =
                   Append(s1.interactionContext, [ctx EXCEPT !.flowName = flow.name])],
             s1)

(***************************************************************************)
(* FlowController (src/src/Flows/Controller.ts).                           *)
(***************************************************************************)
\* EXIT_REGEXP = /(\b)(exit)(\b)/i on the bodies of the model
defaultTestForExit(body) == body = "Exit now"

\* this.schema && this.schema.has(name)
SchemaHas(name) == schema /\ name \in DOMAIN EvaluatedSchema

\* mutant: a name the schema does not declare falls back to the root
getCurrentFlow_fallsBack(s) ==
  IF s.flow = Null \/ s.flow = RootFlow.name \/ ~SchemaHas(s.flow)
  THEN [threw |-> FALSE, flow |-> RootFlow]
  ELSE [threw |-> FALSE, flow |-> EvaluatedSchema[s.flow]]

getCurrentFlow(s) ==
  IF s.flow = Null \/ s.flow = RootFlow.name
  THEN [threw |-> FALSE, flow |-> RootFlow]
  ELSE IF ~SchemaHas(s.flow)
       THEN [threw |-> TRUE, flow |-> RootFlow]
       ELSE [threw |-> FALSE, flow |-> EvaluatedSchema[s.flow]]

\* action[QuestionEvaluate](req, state): a Question resolved while the
\* conversation is not answering is being asked and stays pending; one
\* resolved while answering gets the verdict of its evaluator.
QuestionEvaluate(action, s) ==
  IF s.question.isAnswering
  THEN action
  ELSE [action EXCEPT !.isAnswered = FALSE, !.isFailed = FALSE]

\* the result of resolveActionFromState: the action (NotAction for null) or
\* the error, the bodies the exit test was called with, and how many times
\* the step resolver was invoked
Resolved(action, tests, calls) ==
  [threw |-> FALSE, error |-> Null, action |-> action,
   exitTests |-> tests, resolverCalls |-> calls, wrote |-> FALSE]

ResolveFailed(error, tests, calls) ==
  [threw |-> TRUE, error |-> error, action |-> NotAction,
   exitTests |-> tests, resolverCalls |-> calls, wrote |-> FALSE]

\* deepCopy(x): an object equal to x that shares nothing with it.  An
\* object handed to a resolver is its value and whether it is the very
\* object the state holds.
deepCopy(x) == [shared |-> FALSE, value |-> x]

\* mutant: the resolver is handed state.flowContext itself
ContextGiven_sameObject(s) == [shared |-> TRUE, value |-> s.flowContext]

\* line 151: the first argument of the step resolver
ContextGiven(s) == deepCopy(s.flowContext)

\* what a resolver that writes into the context it was given leaves in it
Scribble(fc) == [n \in DOMAIN fc |-> [fc[n] EXCEPT !.type = "scribbled"]]

\* the state object after a call of resolveActionFromState whose resolver
\* wrote into the object the state holds
Scribbled(s) == [s EXCEPT !.flowContext = Scribble(@)]

\* lines 143-160: the step at state.flowKey of the current flow.
\* res = [throws, value, writes]: what the step resolver does when it is
\* invoked: it throws or returns value, and it may write into the context
\* it was given, which reaches the state when that object is shared
ResolveStep(body, s, res) ==
  LET cf == getCurrentFlow(s)
      name == FlowSelectActionName(cf.flow, s.flowKey)
      action == IF res.value.kind = "Question"
                THEN QuestionEvaluate(res.value, s)
                ELSE res.value
      wrote == res.writes /\ ContextGiven(s).shared
  IN  IF cf.threw THEN ResolveFailed("InvalidFlowReference", <<>>, 0)
      ELSE IF name = Null THEN Resolved(NotAction, <<>>, 0)
      ELSE IF res.throws
      THEN [ResolveFailed("ResolverFailed", <<>>, 1) EXCEPT !.wrote = wrote]
      ELSE IF ~IsAction(action)
      THEN [Resolved(NotAction, <<>>, 1) EXCEPT !.wrote = wrote]
      ELSE [Resolved(ActionSetName(action, name), <<>>, 1) EXCEPT !.wrote = wrote]

\* mutant: the completion check comes after the exit test
resolveActionFromState_exitFirst(body, s, res) ==
  IF defaultTestForExit(body) THEN Resolved(NewExit(body), <<body>>, 0)
  ELSE IF s.isComplete THEN Resolved(NotAction, <<body>>, 0)
  ELSE [ResolveStep(body, s, res) EXCEPT !.exitTests = <<body>>]

\* mutant: the step is resolved before the exit test is consulted
resolveActionFromState_stepFirst(body, s, res) ==
  IF s.isComplete THEN Resolved(NotAction, <<>>, 0)
  ELSE LET r == ResolveStep(body, s, res)
       IN  IF r.threw THEN [r EXCEPT !.exitTests = <<>>]
           ELSE IF defaultTestForExit(body)
           THEN [r EXCEPT !.action = NewExit(body), !.exitTests = <<body>>]
           ELSE [r EXCEPT !.exitTests = <<body>>]

resolveActionFromState(body, s, res) ==
  IF s.isComplete THEN Resolved(NotAction, <<>>, 0)
  ELSE IF defaultTestForExit(body) THEN Resolved(NewExit(body), <<body>>, 0)
  ELSE [ResolveStep(body, s, res) EXCEPT !.exitTests = <<body>>]

\* pipeSmsCookieUpdates(updateContext, completeInteraction)(s): the updates
\* run in the order they are listed; updateContext is handed s itself.
RecordThenComplete(s, flow, action) ==
  LET u == updateContext(s, flow, action)
  IN  IF u.threw THEN u ELSE Returned(completeInteraction(u.ret[1]), u.arg)

\* pipeSmsCookieUpdates(updateContext, incrementFlowAction)(s)
RecordThenIncrement(s, flow, action) ==
  LET u == updateContext(s, flow, action)
  IN  IF u.threw THEN u ELSE Returned(incrementFlowAction(u.ret[1], flow), u.arg)

\* pipeSmsCookieUpdates(updateContext, handleTrigger)(s)
RecordThenTrigger(s, flow, action) ==
  LET u == updateContext(s, flow, action)
  IN  IF u.threw THEN u ELSE Returned(handleTrigger(u.ret[1], action), u.arg)

\* pipeSmsCookieUpdates(startQuestion, updateContext)(s): updateContext is
\* handed the object startQuestion returned, s itself is not written
StartThenRecord(s, flow, action) ==
  LET u == updateContext(startQuestion(s), flow, action)
  IN  [u EXCEPT !.arg = s]

\* mutant: a failed Question completes whatever continueOnFail says
QuestionCase_failCompletes(body, s, flow, action) ==
  LET answering == s.question.isAnswering
      st == IF answering THEN addQuestionAttempt(s, body) ELSE s
      onCopy(r) == IF answering THEN [r EXCEPT !.arg = s] ELSE r
  IN  IF action.isAnswered
      THEN onCopy(RecordThenIncrement(st, flow, action))
      ELSE IF action.isFailed
      THEN onCopy(RecordThenComplete(st, flow, action))
      ELSE IF answering
      THEN [updateContext(st, flow, action) EXCEPT !.arg = s]
      ELSE StartThenRecord(st, flow, action)

\* mutant: a pending Question is started again even when already answering
QuestionCase_pendingRestarts(body, s, flow, action) ==
  LET answering == s.question.isAnswering
      st == IF answering THEN addQuestionAttempt(s, body) ELSE s
      onCopy(r) == IF answering THEN [r EXCEPT !.arg = s] ELSE r
  IN  IF action.isAnswered
      THEN onCopy(RecordThenIncrement(st, flow, action))
      ELSE IF action.isFailed
      THEN IF action.continueOnFail
           THEN onCopy(RecordThenIncrement(st, flow, action))
           ELSE onCopy(RecordThenComplete(st, flow, action))
      ELSE [StartThenRecord(st, flow, action) EXCEPT !.arg = s]

\* case Question (lines 181-214).  When the state is answering, the local
\* variable state is rebound to the copy addQuestionAttempt returns, and the
\* updates run on that copy; otherwise they run on the caller's object.
QuestionCase(body, s, flow, action) ==
  LET answering == s.question.isAnswering
      st == IF answering THEN addQuestionAttempt(s, body) ELSE s
      onCopy(r) == IF answering THEN [r EXCEPT !.arg = s] ELSE r
  IN  IF action.isAnswered
      THEN onCopy(RecordThenIncrement(st, flow, action))
      ELSE IF action.isFailed
      THEN IF action.continueOnFail
           THEN onCopy(RecordThenIncrement(st, flow, action))
           ELSE onCopy(RecordThenComplete(st, flow, action))
      ELSE IF answering
      THEN [updateContext(st, flow, action) EXCEPT !.arg = s]
      ELSE StartThenRecord(st, flow, action)

\* mutant: the target of the Trigger is not checked
TriggerCase_noTargetCheck(s, flow, action) ==
  IF flow = RootFlow /\ ~schema
  THEN Thrown("TriggerWithoutSchema", s)
  ELSE RecordThenTrigger(s, flow, action)

\* mutant: the schema is not required from the root
TriggerCase_noSchemaCheck(s, flow, action) ==
  IF ~(action.flowName = RootFlow.name \/ SchemaHas(action.flowName))
  THEN Thrown("TriggerUnknownFlow", s)
  ELSE RecordThenTrigger(s, flow, action)

\* case Trigger (lines 216-236)
TriggerCase(s, flow, action) ==
  IF flow = RootFlow /\ ~schema
  THEN Thrown("TriggerWithoutSchema", s)
  ELSE IF ~(action.flowName = RootFlow.name \/ SchemaHas(action.flowName))
  THEN Thrown("TriggerUnknownFlow", s)
  ELSE RecordThenTrigger(s, flow, action)

resolveNextStateFromAction(body, s, action) ==
  LET cf == getCurrentFlow(s)
  IN  IF cf.threw THEN Thrown("InvalidFlowReference", s)
      ELSE IF ~IsAction(action) THEN Returned(completeInteraction(s), s)
      ELSE IF action.kind = "Exit" THEN RecordThenComplete(s, cf.flow, action)
      ELSE IF action.kind = "Question" THEN QuestionCase(body, s, cf.flow, action)
      ELSE IF action.kind = "Trigger" THEN TriggerCase(s, cf.flow, action)
      ELSE RecordThenIncrement(s, cf.flow, action)

(***************************************************************************)
(* The FlowController constructor (Controller.ts:77-115).  Its arguments:  *)
(* root, any value (a Flow or not, with a length), schema, any value       *)
(* (undefined, null, a FlowSchema, anything else), and the testForExit     *)
(* option (undefined, a function, anything else).                          *)
(***************************************************************************)
CtorStepNames == <<"r1", "r2", "r3", "r4">>

NoFlow == [name |-> Null, actions |-> <<>>]

\* the values passed as root: values that are no Flow (with a length of 0,
\* as '' or [], or of 1, as [x]), and Flows of 0..MaxSteps steps
CtorRootArgs ==
  {[isFlow |-> FALSE, flow |-> [NoFlow EXCEPT !.actions = a]]
     : a \in {<<>>, <<"r1">>}}
  \cup {[isFlow |-> TRUE,
         flow |-> [name |-> "root", actions |-> SubSeq(CtorStepNames, 1, n)]]
          : n \in 0..MaxSteps}

EmptySchema == [flows |-> {}, nested |-> {}]

\* the FlowSchema objects passed as schema: an empty one, one declaring a
\* flow directly, one declaring it in a nested schema, and one that holds
\* nothing but the root (directly and nested)
CtorSchemas(root) ==
  {EmptySchema, [flows |-> {SubFlow}, nested |-> {}], DeclaredSchema}
  \cup (IF root.isFlow
        THEN {[flows |-> {root.flow},
               nested |-> {[flows |-> {root.flow}, nested |-> {}]}]}
        ELSE {})

\* kind "null" stands for every falsy value, "other" for every truthy value
\* that is not a FlowSchema
CtorSchemaArgs(root) ==
  {[kind |-> k, sch |-> EmptySchema] : k \in {"undefined", "null", "other"}}
  \cup {[kind |-> "FlowSchema", sch |-> sch] : sch \in CtorSchemas(root)}

\* "other" stands for every value that is neither undefined nor a function
TestForExitArgs == {"undefined", "function", "other"}

CtorThrown(message) ==
  [threw |-> TRUE, error |-> "TypeError", message |-> message,
   root |-> NoFlow, hasSchema |-> FALSE]

CtorBuilt(flow, hasSchema) ==
  [threw |-> FALSE, error |-> Null, message |-> Null,
   root |-> flow, hasSchema |-> hasSchema]

\* line 82: testForExit = defaultOptions.testForExit replaces undefined only
TestForExitOption(arg) == IF arg = "undefined" THEN "function" ELSE arg

\* mutant: the constructor does not look at the length of the root
FlowControllerNew_noLengthCheck(root, schemaArg, testForExitArg) ==
  LET given == schemaArg.kind \in {"other", "FlowSchema"}
  IN  IF ~root.isFlow
      THEN CtorThrown("root parameter must be an instance of Flow")
      ELSE IF given /\ schemaArg.kind # "FlowSchema"
      THEN CtorThrown("schema parameter must be an instance of FlowSchema")
      ELSE IF TestForExitOption(testForExitArg) # "function"
      THEN CtorThrown("testForExit parameter must be a function")
      ELSE IF given
              /\ Cardinality(DOMAIN evaluateSchema(root.flow, schemaArg.sch)) = 1
      THEN CtorThrown("the schema must include a flow distinct from the root Flow")
      ELSE CtorBuilt(root.flow, given)

\* new FlowController(root, schema, {testForExit}), lines 77-115
FlowControllerNew(root, schemaArg, testForExitArg) ==
  LET given == schemaArg.kind \in {"other", "FlowSchema"}    \* if (schema)
  IN  IF ~root.isFlow
      THEN CtorThrown("root parameter must be an instance of Flow")
      ELSE IF FlowLength(root.flow) = 0
      THEN CtorThrown("All Flows must perform at least one action")
      ELSE IF given /\ schemaArg.kind # "FlowSchema"
      THEN CtorThrown("schema parameter must be an instance of FlowSchema")
      ELSE IF TestForExitOption(testForExitArg) # "function"
      THEN CtorThrown("testForExit parameter must be a function")
      ELSE IF given
              /\ Cardinality(DOMAIN evaluateSchema(root.flow, schemaArg.sch)) = 1
      THEN CtorThrown("the schema must include a flow distinct from the root Flow")
      ELSE CtorBuilt(root.flow, given)

(***************************************************************************)
(* Spec: a caller drives one FlowController through resolveActionFromState *)
(* and resolveNextStateFromAction.  A call runs the whole function and     *)
(* leaves what it did in last; the caller then takes the returned state    *)
(* (state = fc.resolveNextStateFromAction(req, state, action)) or, after   *)
(* an error, keeps the object it had.                                      *)
(***************************************************************************)
NoCall ==
  [op |-> "none", body |-> Null, action |-> NotAction,
   before |-> createSmsCookie, after |-> createSmsCookie,
   threw |-> FALSE, error |-> Null, ret |-> <<>>,
   exitTests |-> <<>>, resolverCalls |-> 0, ctxWritten |-> FALSE]

\* no handleIncomingSmsWebhook call has run yet.  resolved, delivered and
\* advanced list the actions the pass got from resolveActionFromState,
\* handed to tc.handleAction and passed to resolveNextStateFromAction
NoPass ==
  [pc |-> "idle", n |-> 0, body |-> Null, st |-> createSmsCookie,
   action |-> NotAction, errored |-> FALSE, crashed |-> FALSE,
   wrote |-> FALSE, hookCalls |-> 0, startCookie |-> <<>>,
   resolved |-> <<>>, delivered |-> <<>>, advanced |-> <<>>]

\* no constructor call
NoCtor ==
  [root |-> [isFlow |-> TRUE, flow |-> RootFlow],
   schemaArg |-> [kind |-> "undefined", sch |-> EmptySchema],
   testForExit |-> "undefined", done |-> FALSE, result |-> CtorThrown(Null)]

\* the states the tests start from: a fresh cookie, its flow also set by hand
StartStates == {[createSmsCookie EXCEPT !.flow = f] : f \in FlowNames \cup {Null}}

Init ==
  /\ schema \in BOOLEAN
  /\ state \in StartStates
  /\ last = NoCall
  /\ cookie = <<>>
  /\ pass = NoPass
  /\ pass2 = NoPass
  /\ ctor = NoCtor

WithinBounds(s, action) ==
  /\ Len(s.interactionContext) < MaxHist
  /\ (action.kind = "Question" /\ s.question.isAnswering
        => Len(s.question.attempts) < MaxAttempts)

CallNextState ==
  \E body \in Bodies, action \in AnyAction :
    LET r == resolveNextStateFromAction(body, state, action)
    IN  /\ last.op = "none"
        /\ WithinBounds(state, action)
        /\ state' = r.arg
        /\ last' = [op |-> "nextState", body |-> body, action |-> action,
                    before |-> state, after |-> r.arg,
                    threw |-> r.threw, error |-> r.error, ret |-> r.ret,
                    exitTests |-> <<>>, resolverCalls |-> 0, ctxWritten |-> FALSE]
        /\ UNCHANGED <<schema, cookie, pass, pass2, ctor>>

CallResolveAction ==
  \E body \in Bodies, throws \in BOOLEAN, value \in ResolverResults,
     writes \in BOOLEAN :
    LET r == resolveActionFromState(body, state,
               [throws |-> throws, value |-> value, writes |-> writes])
        after == IF r.wrote THEN Scribbled(state) ELSE state
    IN  /\ last.op = "none"
        /\ state' = after
        /\ last' = [op |-> "resolveAction", body |-> body, action |-> r.action,
                    before |-> state, after |-> after,
                    threw |-> r.threw, error |-> r.error, ret |-> <<>>,
                    exitTests |-> r.exitTests, resolverCalls |-> r.resolverCalls,
                    ctxWritten |-> writes /\ r.resolverCalls = 1]
        /\ UNCHANGED <<schema, cookie, pass, pass2, ctor>>

\* the caller's assignment of the returned state
TakeResult ==
  /\ last.op # "none"
  /\ state' = IF last.ret # <<>> THEN last.ret[1] ELSE state
  /\ last' = NoCall
  /\ UNCHANGED <<schema, cookie, pass, pass2, ctor>>

Next == CallNextState \/ CallResolveAction \/ TakeResult

Spec == Init /\ [][Next]_vars

(***************************************************************************)
(* SpecPass: handleIncomingSmsWebhook (src/src/index.ts, lines 255-346),   *)
(* one inbound message at a time.  cookie is the SmsCookie the client      *)
(* holds; the response of a pass sets it (setSmsCookie) or clears it       *)
(* (clearSmsCookie).  pass holds the locals of the handler: pc, the        *)
(* request body, state (st), action, and what the pass has done so far.    *)
(* The hooks and the gateway are the environment: each call returns or     *)
(* throws.                                                                 *)
(***************************************************************************)
\* tc.getSmsCookieFromRequest(req): the cookie of the request, or a fresh
\* SmsCookie when the request carries none
getSmsCookieFromRequest(c) == IF c = <<>> THEN createSmsCookie ELSE c[1]

\* an action as the lists of a pass hold it
Logged(action) ==
  [kind |-> action.kind, name |-> action.name, flowName |-> action.flowName]

\* what a resolver returns inside a pass: a Question has no receipt before
\* it is delivered
PassResolverResults == {a \in ResolverResults : a.sid = <<>>}

InitPass ==
  /\ schema \in BOOLEAN
  /\ state = createSmsCookie
  /\ last = NoCall
  /\ cookie = <<>>
  /\ pass = NoPass
  /\ pass2 = NoPass
  /\ ctor = NoCtor

\* lines 264-269: a request arrives; load the state, await getUserContext
Receive ==
  \E body \in Bodies, userCtxOk \in BOOLEAN :
    /\ pass.pc \in {"idle", "done"}
    /\ pass.n < MaxPasses
    /\ pass' = [NoPass EXCEPT
                  !.pc = IF userCtxOk THEN "resolveFirst" ELSE "catch",
                  !.n = pass.n + 1,
                  !.body = body,
                  !.st = getSmsCookieFromRequest(cookie),
                  !.errored = ~userCtxOk,
                  !.startCookie = cookie]
    /\ UNCHANGED <<schema, state, last, cookie, pass2, ctor>>

\* lines 271 and 299-300: resolveActionFromState; null ends the loop
Resolve ==
  \E throws \in BOOLEAN, value \in PassResolverResults, writes \in BOOLEAN :
    LET r == resolveActionFromState(pass.body, pass.st,
               [throws |-> throws, value |-> value, writes |-> writes])
        st == IF r.wrote THEN Scribbled(pass.st) ELSE pass.st
    IN  /\ pass.pc \in {"resolveFirst", "resolve"}
        /\ pass' = IF r.threw
                   THEN [pass EXCEPT !.pc = "catch", !.errored = TRUE, !.st = st]
                   ELSE [pass EXCEPT
                           !.st = st,
                           !.action = r.action,
                           !.resolved = IF IsAction(r.action)
                                        THEN Append(@, Logged(r.action)) ELSE @,
                           !.pc = IF pass.pc = "resolveFirst" THEN "onMessage"
                                  ELSE IF IsAction(r.action) THEN "deliver"
                                  ELSE "finish"]
        /\ UNCHANGED <<schema, state, last, cookie, pass2, ctor>>

\* lines 273-283: the onMessage hook; its errors go to onCatchError, and
\* reach the outer catch only when onCatchError throws in turn
OnMessage ==
  \E rethrown \in BOOLEAN :
    /\ pass.pc = "onMessage"
    /\ pass' = IF rethrown
               THEN [pass EXCEPT !.pc = "catch", !.errored = TRUE]
               ELSE [pass EXCEPT
                       !.pc = IF IsAction(pass.action) THEN "deliver" ELSE "finish"]
    /\ UNCHANGED <<schema, state, last, cookie, pass2, ctor>>

\* mutant: the loop goes on to resolve the next action right after the
\* delivery
AfterDelivery_resolves == "resolve"

\* line 290: after the delivery and the delay comes resolveNextStateFromAction
AfterDelivery == "nextState"

\* lines 286-288: tc.handleAction sends the action; the receipt of a
\* Question, if any, is recorded on the action
Deliver ==
  \E sent \in BOOLEAN, sid \in Sids :
    /\ pass.pc = "deliver"
    /\ pass' = IF ~sent
               THEN [pass EXCEPT !.pc = "catch", !.errored = TRUE,
                                 !.delivered = Append(@, Logged(pass.action))]
               ELSE [pass EXCEPT
                       !.pc = AfterDelivery,
                       !.delivered = Append(@, Logged(pass.action)),
                       !.action.sid = IF pass.action.kind = "Question"
                                      THEN sid ELSE <<>>]
    /\ UNCHANGED <<schema, state, last, cookie, pass2, ctor>>

\* lines 290-298: state = resolveNextStateFromAction(req, state, action),
\* then the loop's exit test
NextStateStep ==
  LET r == resolveNextStateFromAction(pass.body, pass.st, pass.action)
      waits == pass.action.kind = "Question" /\ ~QuestionIsComplete(pass.action)
  IN  /\ pass.pc = "nextState"
      /\ Len(pass.st.interactionContext) < MaxPassHist
      /\ Len(pass.st.question.attempts) < MaxPassHist
      /\ pass' = IF r.threw
                 THEN [pass EXCEPT !.pc = "catch", !.errored = TRUE, !.st = r.arg,
                                   !.advanced = Append(@, Logged(pass.action))]
                 ELSE [pass EXCEPT
                         !.st = r.ret[1],
                         !.advanced = Append(@, Logged(pass.action)),
                         !.pc = IF r.ret[1].isComplete \/ waits
                                THEN "finish" ELSE "resolve"]
      /\ UNCHANGED <<schema, state, last, cookie, pass2, ctor>>

\* mutant: the interaction is ended whatever the state says
InteractionEnded_always(s) == TRUE

\* line 303: if (state.isComplete)
InteractionEnded(s) == s.isComplete

\* lines 303-321: the end of the try block.  A complete interaction calls
\* onInteractionEnd and clears the cookie; otherwise the state is written
\* to the cookie.  An error of the hook goes to onCatchError and reaches
\* the outer catch only when onCatchError throws in turn.
Finish ==
  \E rethrown \in BOOLEAN :
    /\ pass.pc = "finish"
    /\ IF InteractionEnded(pass.st)
       THEN IF rethrown
            THEN /\ pass' = [pass EXCEPT !.pc = "catch", !.errored = TRUE,
                                         !.hookCalls = pass.hookCalls + 1]
                 /\ cookie' = cookie
            ELSE /\ pass' = [pass EXCEPT !.pc = "done",
                                         !.hookCalls = pass.hookCalls + 1]
                 /\ cookie' = <<>>
       ELSE /\ ~rethrown
            /\ pass' = [pass EXCEPT !.pc = "done", !.wrote = TRUE]
            /\ cookie' = <<pass.st>>
    /\ UNCHANGED <<schema, state, last, pass2, ctor>>

\* lines 327-333: a Reply returned by onCatchError is sent and recorded;
\* TRUE when handleAction, getCurrentFlow or updateContext throws
ReplyFails(s, sent) ==
  \/ ~sent
  \/ getCurrentFlow(s).threw
  \/ updateContext(s, getCurrentFlow(s).flow, NewReply).threw

\* mutant: the catch block leaves the cookie in place
CatchCookie_keeps(crashes, c) == c

\* lines 343-344: clearSmsCookie, unless the handler rejected before it
CatchCookie(crashes, c) == IF crashes THEN c ELSE <<>>

\* lines 322-345: the catch block.  result is what onCatchError does: it
\* returns null, returns a Reply, or throws (the handler then rejects and no
\* response is written).  The inner try sends and records the Reply, then
\* calls onInteractionEnd; an inner error goes to onCatchError again.  Then
\* the cookie is cleared.
Catch ==
  \E result \in {"null", "Reply", "throws"}, sent \in BOOLEAN,
     hookOk \in BOOLEAN, innerCaught \in BOOLEAN :
    LET replyFails == result = "Reply" /\ ReplyFails(pass.st, sent)
        hookRuns == result # "throws" /\ ~replyFails
        innerErr == replyFails \/ (hookRuns /\ ~hookOk)
        crashes == result = "throws" \/ (innerErr /\ ~innerCaught)
        st1 == IF result = "Reply" /\ ~replyFails
               THEN updateContext(pass.st, getCurrentFlow(pass.st).flow, NewReply).ret[1]
               ELSE pass.st
    IN  /\ pass.pc = "catch"
        /\ (result = "throws" => sent /\ hookOk /\ innerCaught)
        /\ (result = "null" => sent)
        /\ (~hookRuns => hookOk)
        /\ (~innerErr => innerCaught)
        /\ pass' = [pass EXCEPT
                      !.pc = "done",
                      !.st = st1,
                      !.crashed = crashes,
                      !.hookCalls = IF hookRuns THEN pass.hookCalls + 1
                                    ELSE pass.hookCalls]
        /\ cookie' = CatchCookie(crashes, cookie)
        /\ UNCHANGED <<schema, state, last, pass2, ctor>>

NextPass ==
  \/ Receive
  \/ Resolve
  \/ OnMessage
  \/ Deliver
  \/ NextStateStep
  \/ Finish
  \/ Catch

SpecPass == InitPass /\ [][NextPass]_vars

(***************************************************************************)
(* SpecCtor: one call of the FlowController constructor on each choice of  *)
(* its arguments.                                                          *)
(***************************************************************************)
InitCtor ==
  /\ schema = FALSE
  /\ state = createSmsCookie
  /\ last = NoCall
  /\ cookie = <<>>
  /\ pass = NoPass
  /\ pass2 = NoPass
  /\ \E root \in CtorRootArgs, t \in TestForExitArgs :
       \E schemaArg \in CtorSchemaArgs(root) :
         ctor = [NoCtor EXCEPT !.root = root, !.schemaArg = schemaArg,
                               !.testForExit = t]

Construct ==
  /\ ~ctor.done
  /\ ctor' = [ctor EXCEPT
                !.done = TRUE,
                !.result = FlowControllerNew(ctor.root, ctor.schemaArg,
                                             ctor.testForExit)]
  /\ UNCHANGED <<schema, state, last, cookie, pass, pass2>>

NextCtor == Construct

SpecCtor == InitCtor /\ [][NextCtor]_vars

(***************************************************************************)
(* SpecConc: two inbound messages of one conversation, each handled by its *)
(* own call of handleIncomingSmsWebhook.  The handler is an async function *)
(* bound to the route as it is (index.ts:412-415); every step of it ends   *)
(* at an await, where the event loop may run the other call.  pass holds   *)
(* the locals of the call that runs, pass2 those of the other one; both    *)
(* carry the cookie the client held when the message was sent, and the     *)
(* response of each overwrites that cookie.  The environment is the one    *)
(* where nothing fails: no hook, resolver or delivery throws; a call runs  *)
(* nextState while its history is shorter than MaxHist.                    *)
(***************************************************************************)
\* the event loop resumes the other call, unless it has returned
Switch ==
  /\ pass2.pc # "done"
  /\ pass' = pass2
  /\ pass2' = pass
  /\ UNCHANGED <<schema, state, last, cookie, ctor>>

NextConc ==
  \/ pass.pc = "idle" /\ Receive /\ ~pass'.errored
  \/ Resolve /\ ~pass'.errored
  \/ OnMessage /\ ~pass'.errored
  \/ Deliver /\ ~pass'.errored
  \/ Len(pass.st.interactionContext) < MaxHist /\ NextStateStep /\ ~pass'.errored
  \/ Finish /\ ~pass'.errored
  \/ Switch

SpecConc == InitPass /\ [][NextConc]_vars

(***************************************************************************)
(* SpecLive: the processing pass without a bound on its loop.  Once the    *)
(* history or the attempts hold MaxPassHist entries the model keeps only   *)
(* the newest MaxPassHist of them and no longer lists the actions of the   *)
(* pass: no branch of the pass reads them, so the control flow is the one  *)
(* of the code.  Every step of a pass that has started is taken in the     *)
(* end (the awaited promises settle).  One inbound message is handled.     *)
(***************************************************************************)
Newest(q, n) == IF Len(q) <= n THEN q ELSE SubSeq(q, Len(q) - n + 1, Len(q))

Saturate(s) ==
  [s EXCEPT !.interactionContext = Newest(@, MaxPassHist),
            !.question.attempts = Newest(@, MaxPassHist)]

\* lines 290-298, past the bound of NextStateStep
NextStateSaturated ==
  LET r == resolveNextStateFromAction(pass.body, pass.st, pass.action)
      waits == pass.action.kind = "Question" /\ ~QuestionIsComplete(pass.action)
  IN  /\ pass.pc = "nextState"
      /\ ~(/\ Len(pass.st.interactionContext) < MaxPassHist
           /\ Len(pass.st.question.attempts) < MaxPassHist)
      /\ pass' = IF r.threw
                 THEN [pass EXCEPT !.pc = "catch", !.errored = TRUE,
                                   !.st = Saturate(r.arg),
                                   !.resolved = <<>>, !.delivered = <<>>,
                                   !.advanced = <<>>]
                 ELSE [pass EXCEPT
                         !.st = Saturate(r.ret[1]),
                         !.resolved = <<>>, !.delivered = <<>>,
                         !.advanced = <<>>,
                         !.pc = IF r.ret[1].isComplete \/ waits
                                THEN "finish" ELSE "resolve"]
      /\ UNCHANGED <<schema, state, last, cookie, pass2, ctor>>

\* one inbound message
NextLive ==
  \/ pass.pc = "idle" /\ Receive
  \/ Resolve
  \/ OnMessage
  \/ Deliver
  \/ NextStateStep
  \/ NextStateSaturated
  \/ Finish
  \/ Catch

SpecLive ==
  /\ InitPass
  /\ [][NextLive]_vars
  /\ WF_vars(Resolve)
  /\ WF_vars(OnMessage)
  /\ WF_vars(Deliver)
  /\ WF_vars(NextStateStep)
  /\ WF_vars(NextStateSaturated)
  /\ WF_vars(Finish)
  /\ WF_vars(Catch)

(***************************************************************************)
(* Properties of resolveNextStateFromAction and resolveActionFromState,    *)
(* stated on the record last of the call that has just run.                *)
(***************************************************************************)
IsPrefix(p, q) == Len(p) <= Len(q) /\ SubSeq(q, 1, Len(p)) = p

NextStateRan == last.op = "nextState"

NextStateReturned == last.op = "nextState" /\ ~last.threw

ResolveActionRan == last.op = "resolveAction"

\* the flow getCurrentFlow resolves for a state (the root when it throws)
FlowOf(s) == getCurrentFlow(s).flow

\* the actions that take an advancing branch of resolveNextStateFromAction
Advances(action) ==
  \/ action.kind \in {"Reply", "Message"}
  \/ action.kind = "Question" /\ action.isAnswered
  \/ action.kind = "Question" /\ action.isFailed /\ action.continueOnFail

\* C1: across any sequence of nextState calls the interaction history the
\* caller holds only grows by appending: at every step the history before
\* is a prefix of the history after, Trigger flow switches included.
C1_HistoryAppendOnly ==
  [][IsPrefix(state.interactionContext, state'.interactionContext)]_vars

C1_Witness ==
  /\ NextStateReturned
  /\ last.action.kind = "Trigger"
  /\ Len(last.before.interactionContext) = 1
  /\ Len(last.ret[1].interactionContext) = 2
  /\ last.ret[1].flow # last.before.flow

\* C2: isComplete is monotonic: a nextState call on a complete state never
\* returns a state that is not complete, whatever the action.
C2_CompleteIsMonotonic ==
  NextStateReturned /\ last.before.isComplete => last.ret[1].isComplete

C2_Witness ==
  /\ NextStateReturned
  /\ last.before.isComplete
  /\ last.action.kind = "Trigger"
  /\ last.ret[1].flow = "sub"

\* C3: nextState never mutates the state object it is given: after the call
\* every field of the input object is what it was before the call.
C3_InputNeverMutated ==
  NextStateRan => last.after = last.before

\* C4: a nextState call that raises an error produces no state and leaves
\* the input state object exactly as it was.
C4_ErrorLeavesInputUntouched ==
  NextStateRan /\ last.threw => last.ret = <<>> /\ last.after = last.before

C4_Witness ==
  /\ NextStateRan
  /\ last.threw
  /\ last.error = "ActionNotInFlow"
  /\ last.before.flow = Null
  /\ last.action.kind = "Question"

\* C6: on a complete state resolveAction returns no action, whatever the
\* body, position and flow, and calls neither the exit test nor a resolver.
C6_CompleteResolvesNothing ==
  ResolveActionRan /\ last.before.isComplete
    => /\ ~last.threw
       /\ last.action = NotAction
       /\ last.exitTests = <<>>
       /\ last.resolverCalls = 0

C6_Witness ==
  /\ ResolveActionRan
  /\ last.before.isComplete
  /\ defaultTestForExit(last.body)
  /\ last.before.flowKey = 1

\* C7: on a state that is not complete the exit test is called exactly once,
\* with the inbound body, and when it answers true resolveAction returns an
\* Exit action at any position and flow without invoking the step resolver.
C7_ExitShortCircuits ==
  ResolveActionRan /\ ~last.before.isComplete
    => /\ last.exitTests = <<last.body>>
       /\ (defaultTestForExit(last.body)
             => /\ ~last.threw
                /\ last.action.kind = "Exit"
                /\ last.resolverCalls = 0)

C7_Witness ==
  /\ ResolveActionRan
  /\ ~last.before.isComplete
  /\ defaultTestForExit(last.body)
  /\ last.before.question.isAnswering
  /\ last.before.flowKey = 1
  /\ last.action.kind = "Exit"

\* C8: nextState on the Exit action resolveAction builds succeeds at every
\* position of every flow: one history entry tagged with the current flow is
\* appended, isComplete is set, position and question are unchanged.
C8_ExitAlwaysCompletes ==
  /\ NextStateRan
  /\ last.action = NewExit(last.body)
  /\ ~getCurrentFlow(last.before).threw
  => /\ ~last.threw
     /\ Len(last.ret) = 1
     /\ LET out == last.ret[1]
            n == Len(last.before.interactionContext)
        IN  /\ Len(out.interactionContext) = n + 1
            /\ out.interactionContext[n + 1].flowName = FlowOf(last.before).name
            /\ out.isComplete
            /\ out.flowKey = last.before.flowKey
            /\ out.question = last.before.question

\* C9: advance rule: when nextState advances, the returned state is complete
\* if position + 1 is the length of the active flow, and otherwise has the
\* position increased by one and isComplete unchanged; the position never
\* goes back and the active flow stays the same.
C9_AdvanceRule ==
  NextStateReturned /\ Advances(last.action)
    => LET in == last.before
           out == last.ret[1]
       IN  /\ IF in.flowKey + 1 = FlowLength(FlowOf(in))
              THEN out.isComplete
              ELSE out.flowKey = in.flowKey + 1 /\ out.isComplete = in.isComplete
           /\ out.flowKey >= in.flowKey
           /\ FlowOf(out) = FlowOf(in)

C9_Witness ==
  /\ NextStateReturned
  /\ last.action.kind = "Question"
  /\ last.action.isFailed
  /\ last.before.flowKey = 1
  /\ FlowOf(last.before) = RootFlow
  /\ ~last.before.isComplete
  /\ last.ret[1].isComplete

\* C10: for a pending Question on a state that is not answering, nextState
\* returns a state that is answering with no attempts and one more history
\* entry (the Question's, under the current flow); position, flow and
\* isComplete are unchanged.
C10_PendingQuestionStarts ==
  /\ NextStateReturned
  /\ last.action.kind = "Question"
  /\ ~QuestionIsComplete(last.action)
  /\ ~last.before.question.isAnswering
  => LET in == last.before
         out == last.ret[1]
         n == Len(in.interactionContext)
     IN  /\ out.question = [attempts |-> <<>>, isAnswering |-> TRUE]
         /\ Len(out.interactionContext) = n + 1
         /\ SubSeq(out.interactionContext, 1, n) = in.interactionContext
         /\ out.interactionContext[n + 1].type = "Question"
         /\ out.interactionContext[n + 1].flowName = FlowOf(in).name
         /\ out.flowContext[last.action.name].type = "Question"
         /\ out.flowKey = in.flowKey
         /\ FlowOf(out) = FlowOf(in)
         /\ out.isComplete = in.isComplete

C10_Witness ==
  /\ NextStateReturned
  /\ last.action.kind = "Question"
  /\ ~QuestionIsComplete(last.action)
  /\ ~last.before.question.isAnswering
  /\ last.before.flowKey = 1
  /\ last.ret[1].question.isAnswering

\* the flow names the controller knows: the root's, and with a schema the
\* names the schema declares
KnownFlowNames == {RootFlow.name} \cup (IF schema THEN {"root", "sub"} ELSE {})

\* the advance rule on the position: complete at the last step, else one on
Advanced(in, out) ==
  IF in.flowKey + 1 = FlowLength(FlowOf(in))
  THEN out.isComplete /\ out.flowKey = in.flowKey
  ELSE out.flowKey = in.flowKey + 1 /\ out.isComplete = in.isComplete

EmptyFlowContext == [n \in ActionNames |-> NoContext]

\* C11: for an answering state and a Question evaluated as answered,
\* nextState appends exactly one entry, the raw inbound body, to
\* question.attempts and advances the position by one (advance rule).
C11_AnsweredAppendsOneAttempt ==
  /\ NextStateReturned
  /\ last.action.kind = "Question"
  /\ last.action.isAnswered
  /\ last.before.question.isAnswering
  => LET in == last.before
         out == last.ret[1]
     IN  /\ out.question.attempts = Append(in.question.attempts, last.body)
         /\ out.question.isAnswering
         /\ Advanced(in, out)

C11_Witness ==
  /\ NextStateReturned
  /\ last.action.kind = "Question"
  /\ last.action.isAnswered
  /\ last.before.question.isAnswering
  /\ last.before.flowKey = 0
  /\ last.ret[1].flowKey = 1
  /\ Len(last.ret[1].question.attempts) = 1

\* C12: for a Question evaluated as failed, nextState records the context
\* and, without continueOnFail, completes with the position unchanged; with
\* continueOnFail it advances the position as for an answered Question.
C12_FailedQuestion ==
  /\ NextStateReturned
  /\ last.action.kind = "Question"
  /\ last.action.isFailed
  /\ ~last.action.isAnswered
  => LET in == last.before
         out == last.ret[1]
         n == Len(in.interactionContext)
     IN  /\ Len(out.interactionContext) = n + 1
         /\ out.interactionContext[n + 1].type = "Question"
         /\ out.flowContext[last.action.name].type = "Question"
         /\ IF last.action.continueOnFail
            THEN Advanced(in, out)
            ELSE out.isComplete /\ out.flowKey = in.flowKey

C12_Witness ==
  /\ NextStateReturned
  /\ last.action.kind = "Question"
  /\ last.action.isFailed
  /\ last.action.continueOnFail
  /\ last.before.flowKey = 0
  /\ FlowOf(last.before) = RootFlow
  /\ last.ret[1].flowKey = 1
  /\ ~last.ret[1].isComplete

\* C13: a Trigger whose target is neither the root's name nor a flow the
\* schema declares makes nextState raise an error: no state is returned.
C13_UnknownTriggerRaises ==
  /\ NextStateRan
  /\ last.action.kind = "Trigger"
  /\ last.action.flowName \notin KnownFlowNames
  => last.threw /\ last.ret = <<>>

C13_Witness ==
  /\ NextStateRan
  /\ last.action.kind = "Trigger"
  /\ last.action.flowName = "ghost"
  /\ last.action.name = "s1"
  /\ schema
  /\ last.before.flow = "sub"
  /\ last.error = "TriggerUnknownFlow"

\* C14 (as claimed): without a schema, a Trigger whose target is the root's
\* name succeeds and returns a state at position 0 of the root with an empty
\* flow context.
C14_RootTriggerWithoutSchema ==
  /\ NextStateRan
  /\ last.action.kind = "Trigger"
  /\ last.action.flowName = RootFlow.name
  /\ ~schema
  /\ ~getCurrentFlow(last.before).threw
  /\ last.action.name \in FlowActionNames(FlowOf(last.before))
  => /\ ~last.threw
     /\ Len(last.ret) = 1
     /\ last.ret[1].flow = RootFlow.name
     /\ last.ret[1].flowKey = 0
     /\ last.ret[1].flowContext = EmptyFlowContext

\* C14 (amended): a Trigger named on the current flow is accepted exactly
\* when the controller has a schema and the target is the root's name or a
\* declared flow; without a schema every Trigger raises an error.  An
\* accepted Trigger to the root returns position 0 of the root with an empty
\* flow context.
C14_TriggerNeedsSchema ==
  /\ NextStateRan
  /\ last.action.kind = "Trigger"
  /\ ~getCurrentFlow(last.before).threw
  /\ last.action.name \in FlowActionNames(FlowOf(last.before))
  => /\ ~last.threw <=> (schema /\ last.action.flowName \in KnownFlowNames)
     /\ (~last.threw /\ last.action.flowName = RootFlow.name
           => /\ last.ret[1].flow = RootFlow.name
              /\ last.ret[1].flowKey = 0
              /\ last.ret[1].flowContext = EmptyFlowContext)

C14_Witness ==
  /\ NextStateReturned
  /\ last.action.kind = "Trigger"
  /\ last.action.flowName = RootFlow.name
  /\ schema
  /\ last.before.flow = "sub"
  /\ last.ret[1].flow = RootFlow.name
  /\ last.ret[1].flowKey = 0

\* C15: a successful Trigger returns the target as flow, position 0 and an
\* empty flow context; the history is the previous one plus one entry tagged
\* with the flow that was active before; isComplete and question are kept.
C15_TriggerSwitchesFlow ==
  NextStateReturned /\ last.action.kind = "Trigger"
    => LET in == last.before
           out == last.ret[1]
           n == Len(in.interactionContext)
       IN  /\ out.flow = last.action.flowName
           /\ out.flowKey = 0
           /\ out.flowContext = EmptyFlowContext
           /\ Len(out.interactionContext) = n + 1
           /\ SubSeq(out.interactionContext, 1, n) = in.interactionContext
           /\ out.interactionContext[n + 1].type = "Trigger"
           /\ out.interactionContext[n + 1].flowName = FlowOf(in).name
           /\ out.isComplete = in.isComplete
           /\ out.question = in.question

C15_Witness ==
  /\ NextStateReturned
  /\ last.action.kind = "Trigger"
  /\ last.before.flow = RootFlow.name
  /\ last.before.flowContext # EmptyFlowContext
  /\ last.before.question.isAnswering
  /\ last.ret[1].flow = "sub"

\* C16: getCurrentFlow returns the root for an unset flow and for the root's
\* name, the declared flow for a name the schema declares (here one nested
\* in an inner schema), and raises an invalid-reference error for any other
\* name, so for every other name when there is no schema.  A call of the
\* controller shows it: the step it resolves is the one of that flow.
C16_CurrentFlow ==
  /\ LET r == getCurrentFlow(state)
     IN  IF state.flow \in {Null, RootFlow.name}
         THEN ~r.threw /\ r.flow = RootFlow
         ELSE IF schema /\ state.flow = SubFlow.name
         THEN ~r.threw /\ r.flow = SubFlow
         ELSE r.threw
  /\ (ResolveActionRan /\ ~last.before.isComplete /\ ~defaultTestForExit(last.body)
        => IF last.before.flow \in KnownFlowNames \cup {Null}
           THEN /\ last.error # "InvalidFlowReference"
                /\ (IsAction(last.action) /\ last.before.flowKey = 0
                      => last.action.name =
                           IF last.before.flow = SubFlow.name THEN "s1" ELSE "r1")
           ELSE last.error = "InvalidFlowReference")
  /\ (NextStateRan /\ last.before.flow \notin KnownFlowNames \cup {Null}
        => last.error = "InvalidFlowReference")

C16_Witness ==
  /\ ResolveActionRan
  /\ schema
  /\ last.before.flow = SubFlow.name
  /\ last.action.kind = "Reply"
  /\ last.action.name = "s1"

(***************************************************************************)
(* Properties of the processing pass.                                      *)
(***************************************************************************)
PassEnded == pass.pc = "done"

C18_HookOnlyOnCompletion ==
  PassEnded => pass.hookCalls = IF pass.st.isComplete THEN 1 ELSE 0

\* C18 (amended): in a pass that ends without an error the hook is invoked
\* exactly once if the pass ends complete and not at all otherwise; a pass
\* that ends in an error may invoke it from the catch block as well, at most
\* twice in all, whether or not the conversation is complete.
C18_HookOnCompletionWithoutError ==
  /\ PassEnded /\ ~pass.errored
       => pass.hookCalls = IF pass.st.isComplete THEN 1 ELSE 0
  /\ PassEnded /\ pass.errored => pass.hookCalls <= 2

C18_Witness ==
  /\ PassEnded
  /\ ~pass.errored
  /\ pass.st.isComplete
  /\ pass.hookCalls = 1
  /\ pass.st.flowKey = 1
  /\ Len(pass.st.interactionContext) = 2

\* C20: a pass that ends without an error ends either with a complete state
\* or with a Question awaiting its answer as the last action resolved.
C20_EndsCompleteOrAwaiting ==
  PassEnded /\ ~pass.errored
    => \/ pass.st.isComplete
       \/ pass.action.kind = "Question" /\ ~QuestionIsComplete(pass.action)

(***************************************************************************)
(* Properties of the constructor, checked under SpecCtor.                  *)
(***************************************************************************)
NoSchemaGiven == ctor.schemaArg.kind \in {"undefined", "null"}

RootHasSteps == ctor.root.isFlow /\ FlowLength(ctor.root.flow) >= 1

\* C19 as stated: the constructor fails when the root is not a Flow or has
\* no step, succeeds when the root has at least one step and no schema is
\* given, and no controller is built on an empty root.
C19_ConstructorAsStated ==
  ctor.done =>
    /\ ~RootHasSteps => ctor.result.threw
    /\ RootHasSteps /\ NoSchemaGiven => ~ctor.result.threw
    /\ ~ctor.result.threw => FlowLength(ctor.result.root) >= 1

\* C19 (amended): the constructor fails when the root is not a Flow or has
\* no step; it succeeds when the root has at least one step, no schema is
\* given and the testForExit option is absent or a function; no controller
\* is built on an empty root.
C19_ConstructorChecksRoot ==
  ctor.done =>
    /\ ~RootHasSteps => ctor.result.threw /\ ctor.result.error = "TypeError"
    /\ RootHasSteps /\ NoSchemaGiven
         /\ ctor.testForExit \in {"undefined", "function"}
         => ~ctor.result.threw /\ ctor.result.root = ctor.root.flow
    /\ ~ctor.result.threw => FlowLength(ctor.result.root) >= 1

C19_Witness ==
  /\ ctor.done /\ ~ctor.result.threw
  /\ FlowLength(ctor.result.root) = MaxSteps
  /\ ctor.schemaArg.kind = "undefined" /\ ctor.testForExit = "undefined"

(***************************************************************************)
(* Properties of two concurrent passes, checked under SpecConc.            *)
(***************************************************************************)
InFlight(p) == p.pc \notin {"idle", "done"}

\* C17: two messages of one conversation are never processed against the
\* same loaded state: while a pass is under way no other pass is, and the
\* persisted state is still the one the pass loaded.
C17_PassesAreSerialized ==
  /\ ~(InFlight(pass) /\ InFlight(pass2))
  /\ InFlight(pass) => cookie = pass.startCookie
  /\ InFlight(pass2) => cookie = pass2.startCookie

(***************************************************************************)
(* Termination of a pass, checked under SpecLive.                          *)
(***************************************************************************)
\* C21: every processing pass terminates: a pass that has started ends
\* after finitely many actions, whatever the resolvers return, flows whose
\* Trigger steps target each other included.
C21_PassTerminates == (pass.pc # "idle") ~> PassEnded

(***************************************************************************)
(* Properties of the Question sub-state and of the recorded context,       *)
(* checked under Spec.                                                     *)
(***************************************************************************)
PendingQuestion(action) == action.kind = "Question" /\ ~QuestionIsComplete(action)

\* C22: for a Question still pending in a state that is already answering,
\* nextState only records the Question's context: position, isAnswering and
\* isComplete are unchanged, and question.attempts holds the inbound body
\* once more, not twice (the attempt appended on entry is not duplicated,
\* and the attempts are not reset).
C22_PendingWhileAnswering ==
  NextStateReturned /\ PendingQuestion(last.action)
    /\ last.before.question.isAnswering
    => LET in == last.before
           out == last.ret[1]
           ctx == getActionContext(in, FlowOf(in), last.action)
       IN  /\ out.flowKey = in.flowKey
           /\ out.question.isAnswering
           /\ out.isComplete = in.isComplete
           /\ out.question.attempts = Append(in.question.attempts, last.body)
           /\ out.flowContext = [in.flowContext EXCEPT ![last.action.name] = ctx]
           /\ out.interactionContext =
                Append(in.interactionContext,
                       [ctx EXCEPT !.flowName = FlowOf(in).name])

C22_Witness ==
  /\ NextStateReturned /\ PendingQuestion(last.action)
  /\ last.before.question.isAnswering
  /\ last.before.question.attempts = <<>>
  /\ last.ret[1].question.attempts = <<last.body>>
  /\ Len(last.ret[1].interactionContext) = 2

C24_OneActionAtATime ==
  LET R == pass.resolved
      D == pass.delivered
      A == pass.advanced
  IN  /\ IsPrefix(D, R) /\ IsPrefix(A, D)
      /\ Len(R) <= Len(A) + 1
      /\ pass.pc = "deliver" => R = Append(D, Logged(pass.action)) /\ A = D
      /\ pass.pc = "nextState" => D = R /\ D = Append(A, Logged(pass.action))
      /\ pass.pc \in {"resolve", "finish"} => D = R /\ A = D
      /\ PassEnded /\ ~pass.errored => D = R /\ A = D

C24_Witness ==
  /\ PassEnded /\ ~pass.errored
  /\ Len(pass.resolved) = 2
  /\ pass.delivered = pass.resolved /\ pass.advanced = pass.resolved
  /\ pass.resolved[1] # pass.resolved[2]

(***************************************************************************)
(* Frame of resolveActionFromState, checked under Spec.                    *)
(***************************************************************************)
\* C25: resolveActionFromState leaves the state it is given unchanged, also
\* when the step resolver writes into the context it received (a deep
\* copy), and the action the step resolver produced is returned under the
\* declared name of the step at the state's position in the current flow.
C25_ResolveLeavesState ==
  ResolveActionRan
    => /\ last.after = last.before
       /\ state = last.before
       /\ ~last.threw /\ last.resolverCalls = 1 /\ IsAction(last.action)
            => /\ last.action.name
                    = FlowSelectActionName(FlowOf(last.before), last.before.flowKey)
               /\ last.action.name \in FlowActionNames(FlowOf(last.before))

C25_Witness ==
  /\ ResolveActionRan /\ last.ctxWritten /\ ~last.threw
  /\ last.before.flowKey = 1
  /\ last.before.flowContext["r1"].type = "Reply"
  /\ last.action.name = "r2"
  /\ state = last.before

(***************************************************************************)
(* Range of the position, checked under Spec (every flow of the model has  *)
(* at least one step).                                                     *)
(***************************************************************************)
\* C26: in every state reached through resolveAction / nextState whose
\* active flow exists, 0 <= flowKey < length of the active flow, completed
\* states included: completing at the last step leaves flowKey at the last
\* index.
C26_PositionInRange ==
  /\ ~getCurrentFlow(state).threw
       => state.flowKey >= 0 /\ state.flowKey < FlowLength(FlowOf(state))
  /\ NextStateReturned /\ ~getCurrentFlow(last.ret[1]).threw
       => /\ last.ret[1].flowKey >= 0
          /\ last.ret[1].flowKey < FlowLength(FlowOf(last.ret[1]))

C26_Witness ==
  /\ last.op = "none"
  /\ state.isComplete /\ state.flow = "root"
  /\ state.flowKey = FlowLength(RootFlow) - 1
  /\ Len(state.interactionContext) = 2
  /\ state.interactionContext[2].type = "Reply"

(***************************************************************************)
(* The answering flag in the persisted state, checked under SpecPass.      *)
(***************************************************************************)
AwaitsAnswer ==
  pass.action.kind = "Question" /\ ~QuestionIsComplete(pass.action)

\* C27: in every non-complete state persisted at the end of a pass,
\* question.isAnswering is true only if the step at the current position is
\* a Question that was prompted and still awaits its answer; once the
\* position has advanced (or a Trigger has switched the flow) the flag is
\* false again, so a Question reached later in the pass starts from the
\* not-yet-answering state with no attempts carried over.
C27_AnsweringOnlyWhileAwaiting ==
  PassEnded /\ pass.wrote
    => /\ pass.st.question.isAnswering => AwaitsAnswer
       /\ AwaitsAnswer /\ Len(pass.advanced) >= 2
            => pass.st.question.attempts = <<>>


====
